---- MODULE Spec2Model ----
(***************************************************************************)
(* shar: an SSH auth-log summariser.  main() parses the log into a store   *)
(* of per-date buckets of per-IP entries, selects a date, filters every    *)
(* bucket (count, IP, user), resolves the location of every surviving      *)
(* entry, filters on the location, and renders the store.                  *)
(*                                                                         *)
(* Strings that are only compared (dates, IPs, user names) are TLA+        *)
(* strings.  Strings that are formatted and searched (the location fields, *)
(* the composed location string, the -l pattern) are sequences of          *)
(* one-character strings.                                                  *)
(***************************************************************************)
EXTENDS Integers, Sequences, FiniteSets, TLC

\* Longest log file explored, in lines.
MaxLines == 3

\* The values log lines and flags are drawn from.
Dates == {"Jan 1", "Jan 2"}
IPs == {"10.0.0.1", "10.0.0.2"}
Names == {"admin", "root"}

\* A Location as the geolocation client returns it; the zero value is what
\* an entry carries before resolution and after a failed lookup.
ZeroLocation ==
    [Country |-> <<>>, Region |-> <<>>, City |-> <<>>, Lat |-> 0, Long |-> 0]

Berlin ==
    [Country |-> <<"D", "E">>, Region |-> <<"B", "E">>,
     City |-> <<"B", "e", "r", "l", "i", "n">>, Lat |-> 52, Long |-> 13]

\* What iac.locateIP can answer: a resolved location, or an error with the
\* zero-value location.
LookupResults ==
    {[location |-> Berlin, err |-> FALSE],
     [location |-> ZeroLocation, err |-> TRUE]}

\* A log line: a recognised attempt line with its three extracted fields, or
\* any other line.
OtherLine == [kind |-> "other", date |-> "", ip |-> "", user |-> ""]

LogLines ==
    [kind : {"attempt"}, date : Dates, ip : IPs, user : Names] \cup {OtherLine}

\* Command-line flag values explored.
DateFlags == {"", "Jan 2"}
ThresholdFlags == {0, 2}
AddressFlags == {"", "10.0.0.2"}
UserFlags == {"", "root"}
LocaleFlags == {<<>>, <<"D", "E">>}

VARIABLES
    threshold, address, user, locale, date,  \* the flags read by the filters
    attempts,      \* the store: a sequence of datedAuthEntries
    pc,            \* main's position
    idx,           \* applyEntryFilters' loop index (1-based; 0 before the loop)
    stage,         \* the step of the loop body about to run
    applied,       \* apply's result so far for bucket idx
    nLines,        \* lines read so far
    nRecognized,   \* attempt lines among them
    last,          \* the line read last
    parsed,        \* the store as parseSSHAttempts returned it
    lookups,       \* the locateIP requests issued so far, in order
    output         \* what was written to standard output

flags == <<threshold, address, user, locale, date>>
vars == <<threshold, address, user, locale, date, attempts, pc, idx,
          stage, applied, nLines, nRecognized, last, parsed, lookups, output>>

NoOutput == [mode |-> "none", doc |-> <<>>]

----------------------------------------------------------------------------
\* Pure helpers.

Range(s) == {s[i] : i \in 1..Len(s)}

DigitChars == <<"0", "1", "2", "3", "4", "5", "6", "7", "8", "9">>

RECURSIVE Digits(_)
Digits(n) ==
    IF n < 10 THEN <<DigitChars[n + 1]>>
    ELSE Digits(n \div 10) \o <<DigitChars[(n % 10) + 1]>>

\* fmt's %f of a whole number: six decimals.
FormatF(x) ==
    (IF x < 0 THEN <<"-">> ELSE <<>>)
        \o Digits(IF x < 0 THEN -x ELSE x)
        \o <<".", "0", "0", "0", "0", "0", "0">>

composeLocationString(l) ==
    l.City \o <<",", " ">> \o l.Region \o <<",", " ">> \o l.Country
        \o <<" ", "(">> \o FormatF(l.Lat) \o <<",", " ">> \o FormatF(l.Long)
        \o <<")">>

\* regexp.MatchString for a pattern of literal characters and "." : an
\* unanchored search.
MatchString(rx, s) ==
    \E i \in 1..(Len(s) - Len(rx) + 1) :
        \A k \in 1..Len(rx) : rx[k] = "." \/ rx[k] = s[i + k - 1]

----------------------------------------------------------------------------
\* The aggregation store.

\* exists with the not-found return inside the loop: only the first entry is
\* compared.
existsFirstOnly(dae, ip) ==
    IF Len(dae.Entries) > 0 /\ dae.Entries[1].IP = ip
    THEN [idx |-> 1, ok |-> TRUE]
    ELSE [idx |-> 0, ok |-> FALSE]

\* The position of the first entry of the bucket with this IP.
exists(dae, ip) ==
    IF \E i \in 1..Len(dae.Entries) : dae.Entries[i].IP = ip
    THEN [idx |-> CHOOSE i \in 1..Len(dae.Entries) :
                      /\ dae.Entries[i].IP = ip
                      /\ \A j \in 1..(i - 1) : dae.Entries[j].IP # ip,
          ok |-> TRUE]
    ELSE [idx |-> 0, ok |-> FALSE]

\* addUser without the loop over Users.
addUserAlwaysAppend(ae, name) ==
    [ae EXCEPT !.Count = @ + 1, !.Users = Append(@, name)]

\* addUser with Count++ after the loop: a known name returns before it.
addUserCountNew(ae, name) ==
    IF \E i \in 1..Len(ae.Users) : ae.Users[i] = name
    THEN ae
    ELSE [ae EXCEPT !.Count = @ + 1, !.Users = Append(@, name)]

\* Count++, then the name is appended unless the loop finds it.
addUser(ae, name) ==
    IF \E i \in 1..Len(ae.Users) : ae.Users[i] = name
    THEN [ae EXCEPT !.Count = @ + 1]
    ELSE [ae EXCEPT !.Count = @ + 1, !.Users = Append(@, name)]

\* A fresh entry for an IP first seen on a date.
newEntry(ip, name) ==
    [IP |-> ip, Location |-> ZeroLocation, Count |-> 1, Users |-> <<name>>]

\* The position of the bucket for a date, 0 when there is none.
findDate(store, d) ==
    IF \E i \in 1..Len(store) : store[i].Date = d
    THEN CHOOSE i \in 1..Len(store) :
             /\ store[i].Date = d
             /\ \A j \in 1..(i - 1) : store[j].Date # d
    ELSE 0

\* One attempt line's update of one bucket.
recordAttempt(dae, ip, name) ==
    LET found == exists(dae, ip) IN
    IF found.ok
    THEN [dae EXCEPT !.Entries[found.idx] = addUser(@, name)]
    ELSE [dae EXCEPT !.Entries = Append(@, newEntry(ip, name))]

\* One line's update of the store.
parseLine(store, line) ==
    IF line.kind # "attempt" THEN store
    ELSE LET b == findDate(store, line.date) IN
         IF b = 0
         THEN Append(store, recordAttempt([Date |-> line.date, Entries |-> <<>>],
                                          line.ip, line.user))
         ELSE [store EXCEPT ![b] = recordAttempt(@, line.ip, line.user)]

----------------------------------------------------------------------------
\* The filter pipeline.

\* applyDateFilter returning an empty slice, not nil, when no date matches.
applyDateFilterEmpty(dae) ==
    IF \E i \in 1..Len(dae) : dae[i].Date = date
    THEN [isNil |-> FALSE, val |-> <<dae[findDate(dae, date)]>>]
    ELSE [isNil |-> FALSE, val |-> <<>>]

\* The first bucket of the date, alone; nil when there is none.
applyDateFilter(dae) ==
    IF \E i \in 1..Len(dae) : dae[i].Date = date
    THEN [isNil |-> FALSE,
          val |-> <<dae[CHOOSE i \in 1..Len(dae) :
                            /\ dae[i].Date = date
                            /\ \A j \in 1..(i - 1) : dae[j].Date # date]>>]
    ELSE [isNil |-> TRUE, val |-> <<>>]

\* The count predicate with > for >=.
CountPredStrict(ae) == ae.Count > threshold

CountPred(ae) == ae.Count >= threshold

AddressPred(ae) == ae.IP = address

UserPred(ae) == \E i \in 1..Len(ae.Users) : ae.Users[i] = user

LocalePred(ae) == MatchString(locale, composeLocationString(ae.Location))

\* The count filter stopping at the first entry below the threshold.
RECURSIVE CountPrefix(_)
CountPrefix(entries) ==
    IF entries = <<>> \/ ~CountPred(Head(entries)) THEN <<>>
    ELSE <<Head(entries)>> \o CountPrefix(Tail(entries))

CountStepBreak(entries) ==
    IF threshold > 0 THEN CountPrefix(entries) ELSE entries

\* The count filter left to the renderer.
CountStepSkipped(entries) == entries

\* Each filter step: the bucket's entries after it (filter keeps, in order,
\* the entries its predicate accepts).
CountStep(entries) ==
    IF threshold > 0 THEN SelectSeq(entries, CountPred) ELSE entries

AddressStep(entries) ==
    IF address # "" THEN SelectSeq(entries, AddressPred) ELSE entries

UserStep(entries) ==
    IF user # "" THEN SelectSeq(entries, UserPred) ELSE entries

LocaleStep(entries) ==
    IF locale # <<>> THEN SelectSeq(entries, LocalePred) ELSE entries

\* The function handed to apply answering a fresh entry when the lookup
\* fails.
LocateResetOnError(ae, res) ==
    IF res.err
    THEN [IP |-> ae.IP, Location |-> res.location, Count |-> 0, Users |-> <<>>]
    ELSE [ae EXCEPT !.Location = res.location]

\* The function handed to apply: the entry with the lookup's location.
Locate(ae, res) == [ae EXCEPT !.Location = res.location]

\* The assignment dropping a bucket left without entries.
SetEntriesDropEmpty(dae, i, es) ==
    IF es = <<>>
    THEN SubSeq(dae, 1, i - 1) \o SubSeq(dae, i + 1, Len(dae))
    ELSE [dae EXCEPT ![i].Entries = es]

\* dae[idx].Entries = es
SetEntries(dae, i, es) == [dae EXCEPT ![i].Entries = es]

\* The loop body with the lookups before the username filter.
NextStageLocateEarly(s) ==
    CASE s = "count" -> "ip"
      [] s = "ip" -> "geo"
      [] s = "geo" -> "user"
      [] s = "user" -> "loc"
      [] OTHER -> "count"

\* The order of the statements of the loop body.
NextStage(s) ==
    CASE s = "count" -> "ip"
      [] s = "ip" -> "user"
      [] s = "user" -> "geo"
      [] s = "geo" -> "loc"
      [] OTHER -> "count"

----------------------------------------------------------------------------
\* The renderers: the document each writes, as buckets of the entries shown.

TextDoc(store) ==
    [i \in 1..Len(store) |->
        [Date |-> store[i].Date,
         Entries |-> SelectSeq(store[i].Entries, CountPred)]]

JsonDoc(store) ==
    [i \in 1..Len(store) |->
        [Date |-> store[i].Date, Entries |-> store[i].Entries]]

----------------------------------------------------------------------------
\* The program.

\* main after flag.Parse, before the file is opened.
Started ==
    /\ attempts = <<>>
    /\ pc = "open"
    /\ idx = 0
    /\ stage = "none"
    /\ applied = <<>>
    /\ nLines = 0
    /\ nRecognized = 0
    /\ last = OtherLine
    /\ parsed = <<>>
    /\ lookups = <<>>
    /\ output = NoOutput

Init ==
    /\ threshold \in ThresholdFlags
    /\ address \in AddressFlags
    /\ user \in UserFlags
    /\ locale \in LocaleFlags
    /\ date \in DateFlags
    /\ Started

\* os.Open: the file opens, or log.Fatal ends the run.
OpenFile ==
    /\ pc = "open"
    /\ \E ok \in BOOLEAN : pc' = IF ok THEN "parse" ELSE "fatal"
    /\ UNCHANGED <<flags, attempts, idx, stage, applied, nLines, nRecognized,
                   last, parsed, lookups, output>>

\* parseSSHAttempts reads one more line.
ParseLine ==
    /\ pc = "parse"
    /\ nLines < MaxLines
    /\ \E line \in LogLines :
        /\ attempts' = parseLine(attempts, line)
        /\ last' = line
        /\ nRecognized' = nRecognized + (IF line.kind = "attempt" THEN 1 ELSE 0)
    /\ nLines' = nLines + 1
    /\ UNCHANGED <<flags, pc, idx, stage, applied, parsed, lookups, output>>

\* End of file: parseSSHAttempts returns.
EndParse ==
    /\ pc = "parse"
    /\ pc' = "date"
    /\ parsed' = attempts
    /\ last' = OtherLine
    /\ UNCHANGED <<flags, attempts, idx, stage, applied, nLines, nRecognized,
                   lookups, output>>

\* main's date selection; the loop of applyEntryFilters starts after it.
SelectDate ==
    /\ pc = "date"
    /\ IF date # ""
       THEN LET r == applyDateFilter(attempts) IN
            /\ attempts' = r.val
            /\ pc' = IF r.isNil THEN "nomatch" ELSE "filters"
            /\ idx' = IF r.isNil THEN idx ELSE 1
            /\ stage' = IF r.isNil THEN stage ELSE "count"
       ELSE /\ attempts' = attempts
            /\ pc' = "filters"
            /\ idx' = 1
            /\ stage' = "count"
    /\ UNCHANGED <<flags, applied, nLines, nRecognized, last, parsed, lookups,
                   output>>

CountFilter ==
    /\ pc = "filters" /\ idx <= Len(attempts) /\ stage = "count"
    /\ attempts' = SetEntries(attempts, idx, CountStep(attempts[idx].Entries))
    /\ stage' = NextStage(stage)
    /\ UNCHANGED <<flags, pc, idx, applied, nLines, nRecognized, last, parsed,
                   lookups, output>>

AddressFilter ==
    /\ pc = "filters" /\ idx <= Len(attempts) /\ stage = "ip"
    /\ attempts' = SetEntries(attempts, idx, AddressStep(attempts[idx].Entries))
    /\ stage' = NextStage(stage)
    /\ UNCHANGED <<flags, pc, idx, applied, nLines, nRecognized, last, parsed,
                   lookups, output>>

UserFilter ==
    /\ pc = "filters" /\ idx <= Len(attempts) /\ stage = "user"
    /\ attempts' = SetEntries(attempts, idx, UserStep(attempts[idx].Entries))
    /\ stage' = NextStage(stage)
    /\ UNCHANGED <<flags, pc, idx, applied, nLines, nRecognized, last, parsed,
                   lookups, output>>

\* apply calls the function on the next entry: one request to the service.
LocateEntry ==
    /\ pc = "filters" /\ idx <= Len(attempts) /\ stage = "geo"
    /\ Len(applied) < Len(attempts[idx].Entries)
    /\ LET ae == attempts[idx].Entries[Len(applied) + 1] IN
       \E res \in LookupResults :
        /\ applied' = Append(applied, Locate(ae, res))
        /\ lookups' = Append(lookups,
                             [Date |-> attempts[idx].Date, IP |-> ae.IP,
                              Location |-> res.location, err |-> res.err])
    /\ UNCHANGED <<flags, attempts, pc, idx, stage, nLines, nRecognized, last,
                   parsed, output>>

\* apply returns and its result is assigned to the bucket.
ApplyDone ==
    /\ pc = "filters" /\ idx <= Len(attempts) /\ stage = "geo"
    /\ Len(applied) >= Len(attempts[idx].Entries)
    /\ attempts' = SetEntries(attempts, idx, applied)
    /\ applied' = <<>>
    /\ stage' = NextStage(stage)
    /\ UNCHANGED <<flags, pc, idx, nLines, nRecognized, last, parsed, lookups,
                   output>>

\* The last statement of the loop body; the loop moves to the next bucket.
LocaleFilter ==
    /\ pc = "filters" /\ idx <= Len(attempts) /\ stage = "loc"
    /\ attempts' = SetEntries(attempts, idx, LocaleStep(attempts[idx].Entries))
    /\ stage' = NextStage(stage)
    /\ idx' = idx + 1
    /\ UNCHANGED <<flags, pc, applied, nLines, nRecognized, last, parsed,
                   lookups, output>>

\* applyEntryFilters returns.
FiltersDone ==
    /\ pc = "filters" /\ idx > Len(attempts)
    /\ pc' = "render"
    /\ UNCHANGED <<flags, attempts, idx, stage, applied, nLines, nRecognized,
                   last, parsed, lookups, output>>

\* The -j flag, read here only, picks the renderer.
Render ==
    /\ pc = "render"
    /\ \E jsonOut \in BOOLEAN :
        output' = IF jsonOut
                  THEN [mode |-> "json", doc |-> JsonDoc(attempts)]
                  ELSE [mode |-> "text", doc |-> TextDoc(attempts)]
    /\ pc' = "done"
    /\ UNCHANGED <<flags, attempts, idx, stage, applied, nLines, nRecognized,
                   last, parsed, lookups>>

Next ==
    \/ OpenFile
    \/ ParseLine
    \/ EndParse
    \/ SelectDate
    \/ CountFilter
    \/ AddressFilter
    \/ UserFilter
    \/ LocateEntry
    \/ ApplyDone
    \/ LocaleFilter
    \/ FiltersDone
    \/ Render

Spec == Init /\ [][Next]_vars

\* The runs whose count and user filters are not supplied: every entry of
\* the selected buckets, or every entry of the -i address, reaches apply.
LookupInit ==
    /\ threshold = 0
    /\ address \in AddressFlags
    /\ user = ""
    /\ locale \in LocaleFlags
    /\ date \in DateFlags
    /\ Started

\* The run is one sequential thread and every lookup returns: a step that
\* can be taken is taken.
FairSpec == LookupInit /\ [][Next]_vars /\ WF_vars(Next)

----------------------------------------------------------------------------
\* The runs that show the renderers apart: every sign of -n, with and
\* without the other entry filters that leave the location alone.
RenderThresholds == {-1, 0, 1, 2}

RenderInit ==
    /\ threshold \in RenderThresholds
    /\ address \in AddressFlags
    /\ user = ""
    /\ locale = <<>>
    /\ date \in DateFlags
    /\ Started

RenderSpec == RenderInit /\ [][Next]_vars

----------------------------------------------------------------------------
\* Vocabulary of the properties.

\* The store the entry filters start from: the parsed store after date
\* selection.
Selected == IF date = "" THEN parsed ELSE applyDateFilter(parsed).val

\* The places <<bucket, entry>> of a store.
Positions(store) ==
    UNION {{<<i, j>> : j \in 1..Len(store[i].Entries)} : i \in 1..Len(store)}

EntryAt(store, p) == store[p[1]].Entries[p[2]]

CountAt(store, p) ==
    IF p \in Positions(store) THEN EntryAt(store, p).Count ELSE 0

RECURSIVE SumCount(_)
SumCount(entries) ==
    IF entries = <<>> THEN 0
    ELSE Head(entries).Count + SumCount(Tail(entries))

RECURSIVE TotalCount(_)
TotalCount(store) ==
    IF store = <<>> THEN 0
    ELSE SumCount(Head(store).Entries) + TotalCount(Tail(store))

\* Two records of the same attempts: the location aside.
SameAttempt(e, f) == e.IP = f.IP /\ e.Count = f.Count /\ e.Users = f.Users

Present(store, d, e) ==
    \E p \in Positions(store) :
        store[p[1]].Date = d /\ SameAttempt(EntryAt(store, p), e)

NoDup(s) == \A i, j \in 1..Len(s) : i # j => s[i] # s[j]

\* The criteria as the user supplied them, for an entry e of bucket b of the
\* parsed store; the location is the one its lookup answered.
Meets(b, e) ==
    /\ date = "" \/ b.Date = date
    /\ threshold = 0 \/ e.Count >= threshold
    /\ address = "" \/ e.IP = address
    /\ user = "" \/ user \in Range(e.Users)
    /\ locale = <<>>
         \/ \E k \in 1..Len(lookups) :
               /\ lookups[k].Date = b.Date
               /\ lookups[k].IP = e.IP
               /\ MatchString(locale,
                              composeLocationString(lookups[k].Location))

----------------------------------------------------------------------------
\* C1: once the pipeline has ended, an entry of the parsed store is in the
\* store if and only if it meets every supplied criterion (date, threshold,
\* address, user, location pattern); the store holds nothing else, and what
\* it holds matches the location pattern.
C1_FilterContract ==
    pc \in {"render", "done", "nomatch"} =>
        /\ \A p \in Positions(parsed) :
              Present(attempts, parsed[p[1]].Date, EntryAt(parsed, p))
                  <=> Meets(parsed[p[1]], EntryAt(parsed, p))
        /\ \A p \in Positions(attempts) :
              /\ Present(parsed, attempts[p[1]].Date, EntryAt(attempts, p))
              /\ locale # <<>> => LocalePred(EntryAt(attempts, p))

\* A run with a threshold and a location pattern that kept one entry and
\* removed another.
C1_Witness ==
    /\ pc = "done"
    /\ threshold > 0
    /\ locale # <<>>
    /\ Positions(attempts) # {}
    /\ \E p \in Positions(parsed) :
          ~Present(attempts, parsed[p[1]].Date, EntryAt(parsed, p))

\* C2: no bucket ever holds two entries with the same IP.
C2_UniqueIP ==
    \A i \in 1..Len(attempts) :
        \A j, k \in 1..Len(attempts[i].Entries) :
            j # k => attempts[i].Entries[j].IP # attempts[i].Entries[k].IP

\* Three attempt lines: the first bucket's date came back after the second
\* bucket's, for the IP the first bucket already held.
C2_Witness ==
    /\ pc = "parse"
    /\ nLines = 3
    /\ Len(attempts) = 2
    /\ last.kind = "attempt"
    /\ last.date = attempts[1].Date
    /\ Len(attempts[1].Entries) = 1
    /\ attempts[1].Entries[1].IP = last.ip
    /\ attempts[1].Entries[1].Count = 2

\* C3: a line read changes nothing when it is no attempt line; an attempt
\* line raises the Count of exactly one entry, the one of its date and IP,
\* by 1 (a new entry from 0 to 1) and leaves every other Count alone; the
\* Counts of the store add up to the number of attempt lines read.
C3_OneCountPerLine ==
    [][nLines' = nLines + 1 =>
        /\ Positions(attempts) \subseteq Positions(attempts')
        /\ IF last'.kind = "attempt"
           THEN \E p \in Positions(attempts') :
                   /\ attempts'[p[1]].Date = last'.date
                   /\ EntryAt(attempts', p).IP = last'.ip
                   /\ CountAt(attempts', p) = CountAt(attempts, p) + 1
                   /\ \A q \in Positions(attempts') \ {p} :
                         CountAt(attempts', q) = CountAt(attempts, q)
           ELSE attempts' = attempts
        /\ TotalCount(attempts') = nRecognized']_vars

\* Two attempts of one IP on one date, then a line that is no attempt.
C3_Witness ==
    /\ pc = "parse"
    /\ nLines = 3
    /\ nRecognized = 2
    /\ last = OtherLine
    /\ Len(attempts) = 1
    /\ Len(attempts[1].Entries) = 1
    /\ attempts[1].Entries[1].Count = 2

\* C4: no entry's Users ever holds a name twice; an attempt line for an
\* entry that is there leaves its Users as they are when they hold the name,
\* and appends the name at their end when they do not, Count rising by 1 in
\* both cases.
C4_UsersNoDup ==
    [][/\ \A p \in Positions(attempts) : NoDup(EntryAt(attempts, p).Users)
       /\ \A p \in Positions(attempts') : NoDup(EntryAt(attempts', p).Users)
       /\ (nLines' = nLines + 1 /\ last'.kind = "attempt") =>
             \A p \in Positions(attempts) :
                 (attempts[p[1]].Date = last'.date
                      /\ EntryAt(attempts, p).IP = last'.ip) =>
                     /\ EntryAt(attempts', p).Count = EntryAt(attempts, p).Count + 1
                     /\ EntryAt(attempts', p).Users =
                            IF last'.user \in Range(EntryAt(attempts, p).Users)
                            THEN EntryAt(attempts, p).Users
                            ELSE Append(EntryAt(attempts, p).Users, last'.user)
      ]_vars

\* Three attempts on one entry with two names, the last one a name again.
C4_Witness ==
    /\ pc = "parse"
    /\ last.kind = "attempt"
    /\ \E p \in Positions(attempts) :
          /\ EntryAt(attempts, p).Count = 3
          /\ EntryAt(attempts, p).Users = <<"admin", "root">>
          /\ last.user = "admin"

\* C5: with a date filter that no bucket of the parsed store equals, the
\* run is over right after date selection, by a return and not log.Fatal:
\* the store is empty, no entry filter has run, no lookup was issued and
\* nothing was rendered.
C5_NoMatchEndsRun ==
    (/\ pc \notin {"open", "fatal", "parse", "date"}
     /\ date # ""
     /\ \A i \in 1..Len(parsed) : parsed[i].Date # date) =>
        /\ pc = "nomatch"
        /\ attempts = <<>>
        /\ idx = 0
        /\ stage = "none"
        /\ applied = <<>>
        /\ lookups = <<>>
        /\ output = NoOutput

\* The date filter missed a store that holds attempts of another date.
C5_Witness ==
    /\ pc = "nomatch"
    /\ Positions(parsed) # {}

\* C6: the count, IP and user steps commute: when the three have run on a
\* bucket, its entries are what each of the six orders of the three steps
\* makes of the bucket's entries before them, order included.
C6_FiltersCommute ==
    (pc = "filters" /\ stage = "geo" /\ idx <= Len(Selected)) =>
        LET orig == Selected[idx].Entries
            got == attempts[idx].Entries
        IN  /\ got = UserStep(AddressStep(CountStep(orig)))
            /\ got = AddressStep(UserStep(CountStep(orig)))
            /\ got = UserStep(CountStep(AddressStep(orig)))
            /\ got = CountStep(UserStep(AddressStep(orig)))
            /\ got = AddressStep(CountStep(UserStep(orig)))
            /\ got = CountStep(AddressStep(UserStep(orig)))

\* All three criteria supplied, on a bucket of two entries of which one
\* survived.
C6_Witness ==
    /\ pc = "filters"
    /\ stage = "geo"
    /\ threshold > 0
    /\ address # ""
    /\ user # ""
    /\ Len(Selected[idx].Entries) = 2
    /\ Len(attempts[idx].Entries) = 1

\* C7: from the start of the entry filters on, the store has the buckets it
\* started with, with their dates, in their order, and each bucket holds
\* only entries it started with; a bucket filtered to nothing stays.
C7_BucketsKept ==
    pc \in {"filters", "render", "done"} =>
        /\ Len(attempts) = Len(Selected)
        /\ \A i \in 1..Len(attempts) :
              /\ attempts[i].Date = Selected[i].Date
              /\ \A j \in 1..Len(attempts[i].Entries) :
                    \E k \in 1..Len(Selected[i].Entries) :
                        SameAttempt(Selected[i].Entries[k],
                                    attempts[i].Entries[j])

\* Two buckets at the end, one of them filtered to nothing.
C7_Witness ==
    /\ pc = "done"
    /\ Len(attempts) = 2
    /\ \E i \in 1..2 :
          attempts[i].Entries = <<>> /\ Selected[i].Entries # <<>>

\* C8: a lookup adds to apply's result the entry it was made for, its IP,
\* Count and Users as they were, with the zero-value location when it
\* failed, and the run goes on; apply's result, same length and order as the
\* bucket's entries, becomes the bucket's entries; and a run in which a
\* lookup failed reaches the end of rendering.
C8_LookupFailureKeepsEntry ==
    /\ [][/\ Len(lookups') = Len(lookups) + 1 =>
               LET req == lookups'[Len(lookups')]
                   ae == attempts[idx].Entries[Len(applied) + 1]
               IN  /\ Len(applied') = Len(applied) + 1
                   /\ SubSeq(applied', 1, Len(applied)) = applied
                   /\ SameAttempt(applied'[Len(applied')], ae)
                   /\ req.IP = ae.IP
                   /\ req.err => applied'[Len(applied')].Location = ZeroLocation
                   /\ pc' = "filters"
                   /\ attempts' = attempts
          /\ (pc = "filters" /\ stage = "geo" /\ stage' # "geo") =>
               /\ Len(attempts') = Len(attempts)
               /\ Len(attempts'[idx].Entries) = Len(attempts[idx].Entries)
               /\ \A j \in 1..Len(attempts[idx].Entries) :
                     SameAttempt(attempts'[idx].Entries[j],
                                 attempts[idx].Entries[j])
         ]_vars
    /\ (\E k \in 1..Len(lookups) : lookups[k].err) ~> (pc = "done")

\* A finished run in which a lookup failed and its entry, unresolved, is in
\* the rendered store.
C8_Witness ==
    /\ pc = "done"
    /\ \E k \in 1..Len(lookups) :
          /\ lookups[k].err
          /\ \E p \in Positions(attempts) :
                /\ attempts[p[1]].Date = lookups[k].Date
                /\ EntryAt(attempts, p).IP = lookups[k].IP
                /\ EntryAt(attempts, p).Location = ZeroLocation
                /\ <<attempts[p[1]].Date, EntryAt(attempts, p).IP>> \in
                       {<<output.doc[i].Date, output.doc[i].Entries[j].IP>> :
                            <<i, j>> \in Positions(output.doc)}

\* The entries of bucket i that the count, IP and user steps keep.
Survivors(i) == UserStep(AddressStep(CountStep(Selected[i].Entries)))

\* The requests for the first n of them, and for all of them.
RequestKeys(i, n) ==
    LET kept == Survivors(i)
        day == Selected[i].Date
    IN  [j \in 1..n |-> <<day, kept[j].IP>>]

AllRequestKeys(i) ==
    LET kept == Survivors(i)
        day == Selected[i].Date
    IN  [j \in 1..Len(kept) |-> <<day, kept[j].IP>>]

RECURSIVE RequestsOfBuckets(_)
RequestsOfBuckets(n) ==
    IF n = 0 THEN <<>>
    ELSE RequestsOfBuckets(n - 1) \o AllRequestKeys(n)

\* C9: at every point of the run the lookups issued so far are, in order:
\* one for each entry the count, IP and user steps kept in the buckets
\* already done, in store order; for the bucket in hand none before its
\* user step has run, then one for each entry apply has reached, and all of
\* its kept entries by the time of its location step. No lookup is ever
\* issued outside the entry filters, and the location flag plays no part.
C9_LookupsExactlySurvivors ==
    LET issued == [k \in 1..Len(lookups) |-> <<lookups[k].Date, lookups[k].IP>>]
    IN  IF pc = "filters" /\ idx <= Len(Selected)
        THEN CASE stage = "geo" ->
                    /\ Len(applied) <= Len(Survivors(idx))
                    /\ issued = RequestsOfBuckets(idx - 1)
                                    \o RequestKeys(idx, Len(applied))
               [] stage = "loc" ->
                    issued = RequestsOfBuckets(idx - 1) \o AllRequestKeys(idx)
               [] OTHER -> issued = RequestsOfBuckets(idx - 1)
        ELSE IF pc \in {"filters", "render", "done"}
             THEN issued = RequestsOfBuckets(Len(Selected))
             ELSE lookups = <<>>

\* A finished run over two buckets, with no location pattern, that looked
\* up some entries and not others.
C9_Witness ==
    /\ pc = "done"
    /\ locale = <<>>
    /\ Len(Selected) = 2
    /\ lookups # <<>>
    /\ Len(lookups) < Cardinality(Positions(Selected))
    /\ lookups[Len(lookups)].Date = Selected[2].Date

\* C10: when the pipeline has ended every entry of the store has
\* Count >= threshold, so text mode's check hides none: the rendered
\* document, in either mode, shows every entry of the store.
C10_RenderShowsAll ==
    /\ pc \in {"render", "done"} =>
          /\ \A p \in Positions(attempts) : EntryAt(attempts, p).Count >= threshold
          /\ TextDoc(attempts) = JsonDoc(attempts)
    /\ pc = "done" => output.doc = JsonDoc(attempts)

\* Text mode with a positive threshold that removed an entry and showed
\* another.
C10_Witness ==
    /\ pc = "done"
    /\ output.mode = "text"
    /\ threshold > 0
    /\ Positions(output.doc) # {}
    /\ \E p \in Positions(parsed) : EntryAt(parsed, p).Count < threshold

\* Text mode with a negative threshold.
C10_WitnessNegative ==
    /\ pc = "done"
    /\ output.mode = "text"
    /\ threshold < 0
    /\ Positions(output.doc) # {}

====
